---- MODULE Spec2Model ----
(***************************************************************************)
(* Blivalley: projects made of milestones and tasks, work sessions on a    *)
(* task, and the API route handlers that keep task status, milestone       *)
(* status, project progress and the active session in step.                *)
(*                                                                         *)
(* The stored state is the three MongoDB collections (projects, sessions,  *)
(* users).  Each route handler is one action of Spec (requests executed    *)
(* one at a time); SpecConc splits the handlers that read and then write   *)
(* into their database round trips and interleaves two requests.           *)
(*                                                                         *)
(* src/models/Session.ts declares the session document twice: with a       *)
(* `status` field (lines 16-53), which src/app/api/sessions/route.ts reads *)
(* and writes, and with `isActive`, `duration` (lines 186-238), which      *)
(* src/app/api/sessions/[id]/route.ts writes.  The session record of the   *)
(* model carries the fields of both declarations, and each handler touches *)
(* exactly the fields its code names.                                      *)
(***************************************************************************)
EXTENDS Integers, Sequences, FiniteSets, TLC

\* ---------------------------------------------------------------- bounds
MaxProjects == 1
MaxSessions == 2
MaxReplace  == 1
MaxRequests == 3

\* ------------------------------------------------------------ value sets
Users   == {"u1", "u2"}
NoUser  == "anon"        \* getServerSession gives no session.user.id
Null    == "null"        \* a field the request body does not carry
Bogus   == "bogus"       \* a status string outside every enum
NoId    == 0             \* no document id (ids start at 1)
NoSub   == <<0, 0>>      \* no milestone or task id
NoTime  == -1            \* endTime: null
Date    == 0             \* new Date(): every request falls in one instant

TaskStatuses    == {"not_started", "in_progress", "completed"}
ProjectStatuses == {"active", "completed", "archived"}
Notes           == {"n1"}

\* ------------------------------------------------------- Project (model)
RECURSIVE SumLen(_)
SumLen(ms) ==
  IF ms = << >> THEN 0 ELSE Len(Head(ms).tasks) + SumLen(Tail(ms))

\* milestone.tasks.filter(task => task.status === 'completed').length
CountCompleted(ts) ==
  Cardinality({j \in 1..Len(ts) : ts[j].status = "completed"})

RECURSIVE SumCompleted(_)
SumCompleted(ms) ==
  IF ms = << >> THEN 0 ELSE CountCompleted(Head(ms).tasks) + SumCompleted(Tail(ms))

\* Math.round of the non-negative quotient n / d: halves round up
MathRound(n, d) == (2 * n + d) \div (2 * d)

calculateProgress(project) ==
  LET totalTasks == SumLen(project.milestones)
      completedTasks == SumCompleted(project.milestones)
  IN  IF totalTasks = 0 THEN [project EXCEPT !.progress = 0]
      ELSE [project EXCEPT !.progress = MathRound(completedTasks * 100, totalTasks)]

\* ProjectSchema.pre('save'): `loaded` is the document as it was read
preSaveNever(loaded, project) == project

preSave(loaded, project) ==
  IF project.milestones # loaded.milestones THEN calculateProgress(project)
  ELSE project

\* schema validation on save: the enum of every status path
ValidMilestones(ms) ==
  \A i \in 1..Len(ms) :
     /\ ms[i].status \in TaskStatuses
     /\ \A j \in 1..Len(ms[i].tasks) : ms[i].tasks[j].status \in TaskStatuses

validate(project) ==
  /\ project.status \in ProjectStatuses
  /\ ValidMilestones(project.milestones)

\* the document a deleted or never created id stands for
NoProject ==
  [exists |-> FALSE, userId |-> NoUser, status |-> "active", progress |-> 0,
   milestones |-> << >>, gen |-> 0]

\* a fresh subdocument _id: the i-th of the gen-th milestones array stored
NewId(gen, i) == <<gen, i>>

\* the subdocuments mongoose builds from a milestones array without _ids
BuildMilestones(input, gen) ==
  [i \in 1..Len(input) |->
     [id |-> NewId(gen, i), status |-> input[i].status,
      tasks |-> [j \in 1..Len(input[i].tasks) |->
                   [id |-> NewId(gen, j), status |-> input[i].tasks[j],
                    lastNote |-> Null]]]]

MilestoneIndex(project, milestoneId) ==
  IF \E i \in 1..Len(project.milestones) : project.milestones[i].id = milestoneId
  THEN CHOOSE i \in 1..Len(project.milestones) : project.milestones[i].id = milestoneId
  ELSE 0

TaskIndex(milestone, taskId) ==
  IF \E j \in 1..Len(milestone.tasks) : milestone.tasks[j].id = taskId
  THEN CHOOSE j \in 1..Len(milestone.tasks) : milestone.tasks[j].id = taskId
  ELSE 0

\* PUT .../tasks/{taskId}/status, after the lookups: the task, its
\* lastSession, then the milestone status derived from the tasks
taskStatusOnly(project, i, j, status, note) ==
  [project EXCEPT !.milestones[i].tasks[j].status = status]

taskStatusUpdate(project, i, j, status, note) ==
  LET p1 == [project EXCEPT !.milestones[i].tasks[j].status = status]
      p2 == IF status = "in_progress" /\ note \notin {Null, ""}
            THEN [p1 EXCEPT !.milestones[i].tasks[j].lastNote = note]
            ELSE p1
      ts == p2.milestones[i].tasks
      allTasksCompleted  == \A k \in 1..Len(ts) : ts[k].status = "completed"
      anyTaskInProgress  == \E k \in 1..Len(ts) : ts[k].status = "in_progress"
      allTasksNotStarted == \A k \in 1..Len(ts) : ts[k].status = "not_started"
  IN  [p2 EXCEPT !.milestones[i].status =
          IF allTasksCompleted THEN "completed"
          ELSE IF anyTaskInProgress THEN "in_progress"
          ELSE IF allTasksNotStarted THEN "not_started"
          ELSE @]

\* PUT .../milestones/{milestoneId}/status, after the lookups
milestoneStatusOnly(project, i, status) ==
  [project EXCEPT !.milestones[i].status = status]

milestoneStatusStartAll(project, i, status) ==
  LET ts == project.milestones[i].tasks
  IN  [project EXCEPT
         !.milestones[i].status = status,
         !.milestones[i].tasks =
            [k \in 1..Len(ts) |->
               IF status = "completed" \/ (status = "in_progress" /\ ts[k].status = "not_started")
               THEN [ts[k] EXCEPT !.status = status]
               ELSE ts[k]]]

milestoneStatusEvery(project, i, status) ==
  [project EXCEPT
     !.milestones = [m \in 1..Len(project.milestones) |->
                       [project.milestones[m] EXCEPT !.status = status]]]

milestoneStatusUpdate(project, i, status) ==
  LET p1 == [project EXCEPT !.milestones[i].status = status]
      ts == p1.milestones[i].tasks
      p2 == IF status = "completed"
            THEN [p1 EXCEPT !.milestones[i].tasks =
                    [k \in 1..Len(ts) |-> [ts[k] EXCEPT !.status = "completed"]]]
            ELSE p1
      notStarted == {k \in 1..Len(ts) : ts[k].status = "not_started"}
      firstNotStartedTask == CHOOSE k \in notStarted : \A l \in notStarted : k <= l
  IN  IF status = "in_progress" /\ notStarted # {}
      THEN [p2 EXCEPT !.milestones[i].tasks[firstNotStartedTask].status = "in_progress"]
      ELSE p2

\* PUT /api/sessions/{id}, the task part: status and lastSession
sessionTaskUpdate(project, i, j, taskStatus, taskNote) ==
  LET p1 == IF taskStatus # Null
            THEN [project EXCEPT !.milestones[i].tasks[j].status = taskStatus]
            ELSE project
  IN  IF taskNote \notin {Null, ""}
      THEN [p1 EXCEPT !.milestones[i].tasks[j].lastNote = taskNote]
      ELSE p1

\* document.save(): the paths changed since the document was loaded are
\* written ($set); every other path keeps what the collection holds
SameShape(a, b) ==
  /\ Len(a.milestones) = Len(b.milestones)
  /\ \A i \in 1..Len(a.milestones) :
        /\ a.milestones[i].id = b.milestones[i].id
        /\ Len(a.milestones[i].tasks) = Len(b.milestones[i].tasks)
        /\ \A j \in 1..Len(a.milestones[i].tasks) :
              a.milestones[i].tasks[j].id = b.milestones[i].tasks[j].id

Pick(s, l, d) == IF d # l THEN d ELSE s

save(stored, loaded, doc) ==
  IF ~(SameShape(loaded, doc) /\ SameShape(stored, doc))
  THEN [stored EXCEPT !.status = Pick(stored.status, loaded.status, doc.status),
                      !.progress = Pick(stored.progress, loaded.progress, doc.progress),
                      !.milestones = doc.milestones, !.gen = doc.gen]
  ELSE [stored EXCEPT
          !.status = Pick(stored.status, loaded.status, doc.status),
          !.progress = Pick(stored.progress, loaded.progress, doc.progress),
          !.milestones =
             [i \in 1..Len(doc.milestones) |->
                [id |-> doc.milestones[i].id,
                 status |-> Pick(stored.milestones[i].status,
                                 loaded.milestones[i].status, doc.milestones[i].status),
                 tasks |->
                   [j \in 1..Len(doc.milestones[i].tasks) |->
                      [id |-> doc.milestones[i].tasks[j].id,
                       status |-> Pick(stored.milestones[i].tasks[j].status,
                                       loaded.milestones[i].tasks[j].status,
                                       doc.milestones[i].tasks[j].status),
                       lastNote |-> Pick(stored.milestones[i].tasks[j].lastNote,
                                         loaded.milestones[i].tasks[j].lastNote,
                                         doc.milestones[i].tasks[j].lastNote)]]]]]

\* ------------------------------------------------------------- responses
\* the response of the last request with the request fields that decided it
Reply(op, user, code) ==
  [op |-> op, user |-> user, code |-> code, error |-> Null, pid |-> NoId,
   sid |-> NoId, status |-> Null, note |-> Null, owners |-> {}, progress |-> -1]

\* getServerSession: !session?.user?.id
unauthenticatedNever(user) == FALSE

unauthenticated(user) == user = NoUser

\* Project.findOne({ _id: id, userId: session.user.id })
findProjectAnyOwner(P, id, user) == id \in 1..Len(P) /\ P[id].exists

findProject(P, id, user) ==
  id \in 1..Len(P) /\ P[id].exists /\ P[id].userId = user

\* Session.findOne({ _id: id, userId: session.user.id })
findSession(S, id, user) == id \in 1..Len(S) /\ S[id].userId = user

\* Session.findOne({ userId, status: 'active' })
findActiveSessionNever(S, user) == FALSE

findActiveSession(S, user) ==
  \E k \in 1..Len(S) : S[k].userId = user /\ S[k].status = "active"

\* ------------------------------------------------ /api/projects handlers
\* POST /api/projects
postProject(P, user, body) ==
  LET op == "POST /api/projects"
      transformedMilestones ==
        [i \in 1..Len(body.milestones) |->
           [status |-> "not_started",
            tasks |-> [j \in 1..Len(body.milestones[i].tasks) |->
                         IF body.milestones[i].tasks[j] = Null THEN "not_started"
                         ELSE body.milestones[i].tasks[j]]]]
      doc == [exists |-> TRUE, userId |-> user,
              status |-> IF body.status = Null THEN "active" ELSE body.status,
              progress |-> 0,
              milestones |-> BuildMilestones(transformedMilestones, 1),
              gen |-> 1]
  IN  IF unauthenticated(user) THEN [P |-> P, r |-> Reply(op, user, 401)]
      ELSE IF ~body.name THEN [P |-> P, r |-> Reply(op, user, 400)]
      ELSE IF ~validate(doc) THEN [P |-> P, r |-> Reply(op, user, 500)]
      ELSE [P |-> Append(P, preSave(NoProject, doc)),
            r |-> [Reply(op, user, 200) EXCEPT !.pid = Len(P) + 1, !.owners = {user}]]

\* GET /api/projects: Project.find({ userId: session.user.id })
getProjects(P, user) ==
  LET op == "GET /api/projects"
      found == {k \in 1..Len(P) : P[k].exists /\ P[k].userId = user}
  IN  IF unauthenticated(user) THEN Reply(op, user, 401)
      ELSE [Reply(op, user, 200) EXCEPT !.owners = {P[k].userId : k \in found}]

\* GET /api/projects/{id}
getProject(P, user, id) ==
  LET op == "GET /api/projects/{id}"
  IN  IF unauthenticated(user) THEN Reply(op, user, 401)
      ELSE IF ~findProject(P, id, user) THEN [Reply(op, user, 404) EXCEPT !.pid = id]
      ELSE [Reply(op, user, 200) EXCEPT !.pid = id, !.owners = {P[id].userId}]

\* DELETE /api/projects/{id}
deleteProject(P, user, id) ==
  LET op == "DELETE /api/projects/{id}"
  IN  IF unauthenticated(user) THEN [P |-> P, r |-> Reply(op, user, 401)]
      ELSE IF ~findProject(P, id, user)
      THEN [P |-> P, r |-> [Reply(op, user, 404) EXCEPT !.pid = id]]
      ELSE [P |-> [P EXCEPT ![id] = NoProject],
            r |-> [Reply(op, user, 200) EXCEPT !.pid = id]]

\* body.status is missing or not one of `domain`
invalidStatusNever(status, domain) == FALSE

invalidStatus(status, domain) == status = Null \/ status \notin domain

\* PUT /api/projects/{id}: the project's status
putProjectStatus(P, user, id, status) ==
  LET op == "PUT /api/projects/{id}"
      doc == [P[id] EXCEPT !.status = status]
  IN  IF unauthenticated(user) THEN [P |-> P, r |-> Reply(op, user, 401)]
      ELSE IF invalidStatus(status, ProjectStatuses)
      THEN [P |-> P, r |-> [Reply(op, user, 400) EXCEPT !.status = status]]
      ELSE IF ~findProject(P, id, user)
      THEN [P |-> P, r |-> [Reply(op, user, 404) EXCEPT !.pid = id, !.status = status]]
      ELSE IF ~validate(doc)
      THEN [P |-> P, r |-> [Reply(op, user, 500) EXCEPT !.pid = id, !.status = status]]
      ELSE [P |-> [P EXCEPT ![id] = save(P[id], P[id], preSave(P[id], doc))],
            r |-> [Reply(op, user, 200) EXCEPT !.pid = id, !.status = status,
                                               !.owners = {P[id].userId}]]

\* PUT /api/projects (src/app/api/projects/route.ts): the allowed fields
\* the body carries, here status and milestones
putProject(P, user, id, body) ==
  LET op == "PUT /api/projects"
      d1 == IF body.status # Null THEN [P[id] EXCEPT !.status = body.status] ELSE P[id]
      d2 == IF body.replace
            THEN [d1 EXCEPT !.milestones = BuildMilestones(body.milestones, d1.gen + 1),
                            !.gen = @ + 1]
            ELSE d1
  IN  IF unauthenticated(user) THEN [P |-> P, r |-> Reply(op, user, 401)]
      ELSE IF ~findProject(P, id, user)
      THEN [P |-> P, r |-> [Reply(op, user, 404) EXCEPT !.pid = id]]
      ELSE IF ~validate(d2)
      THEN [P |-> P, r |-> [Reply(op, user, 500) EXCEPT !.pid = id]]
      ELSE [P |-> [P EXCEPT ![id] = save(P[id], P[id], preSave(P[id], d2))],
            r |-> [Reply(op, user, 200) EXCEPT !.pid = id, !.owners = {P[id].userId}]]

\* PUT /api/projects/{id}/milestones/{milestoneId}/status
putMilestoneStatus(P, user, id, milestoneId, status) ==
  LET op == "PUT milestone status"
      i == MilestoneIndex(P[id], milestoneId)
      doc == milestoneStatusUpdate(P[id], i, status)
  IN  IF unauthenticated(user) THEN [P |-> P, r |-> Reply(op, user, 401)]
      ELSE IF invalidStatus(status, TaskStatuses)
      THEN [P |-> P, r |-> [Reply(op, user, 400) EXCEPT !.status = status]]
      ELSE IF ~findProject(P, id, user)
      THEN [P |-> P, r |-> [Reply(op, user, 404) EXCEPT !.pid = id, !.status = status]]
      ELSE IF i = 0
      THEN [P |-> P, r |-> [Reply(op, user, 404) EXCEPT !.pid = id, !.status = status]]
      ELSE IF ~validate(doc)
      THEN [P |-> P, r |-> [Reply(op, user, 500) EXCEPT !.pid = id, !.status = status]]
      ELSE [P |-> [P EXCEPT ![id] = save(P[id], P[id], preSave(P[id], doc))],
            r |-> [Reply(op, user, 200) EXCEPT !.pid = id, !.status = status,
                                               !.owners = {P[id].userId},
                                               !.progress = preSave(P[id], doc).progress]]

\* PUT /api/projects/{id}/milestones/{milestoneId}/tasks/{taskId}/status
putTaskStatus(P, user, id, milestoneId, taskId, status, note) ==
  LET op == "PUT task status"
      i == MilestoneIndex(P[id], milestoneId)
      j == TaskIndex(P[id].milestones[i], taskId)
      doc == taskStatusUpdate(P[id], i, j, status, note)
  IN  IF unauthenticated(user) THEN [P |-> P, r |-> Reply(op, user, 401)]
      ELSE IF invalidStatus(status, TaskStatuses)
      THEN [P |-> P, r |-> [Reply(op, user, 400) EXCEPT !.status = status]]
      ELSE IF ~findProject(P, id, user)
      THEN [P |-> P, r |-> [Reply(op, user, 404) EXCEPT !.pid = id, !.status = status]]
      ELSE IF i = 0
      THEN [P |-> P, r |-> [Reply(op, user, 404) EXCEPT !.pid = id, !.status = status]]
      ELSE IF j = 0
      THEN [P |-> P, r |-> [Reply(op, user, 404) EXCEPT !.pid = id, !.status = status]]
      ELSE IF ~validate(doc)
      THEN [P |-> P, r |-> [Reply(op, user, 500) EXCEPT !.pid = id, !.status = status]]
      ELSE [P |-> [P EXCEPT ![id] = save(P[id], P[id], preSave(P[id], doc))],
            r |-> [Reply(op, user, 200) EXCEPT !.pid = id, !.status = status,
                                               !.owners = {P[id].userId}]]

\* ------------------------------------------------ /api/sessions handlers
\* GET /api/sessions?projectId=&active=
getSessions(S, user, projectId, active) ==
  LET op == "GET /api/sessions"
      found == {k \in 1..Len(S) :
                  /\ S[k].userId = user
                  /\ (projectId # NoId => S[k].projectId = projectId)
                  /\ (active => S[k].status = "active")}
  IN  IF unauthenticated(user) THEN Reply(op, user, 401)
      ELSE [Reply(op, user, 200) EXCEPT !.pid = projectId,
                                        !.owners = {S[k].userId : k \in found}]

\* GET /api/sessions/{id}
getSession(S, user, id) ==
  LET op == "GET /api/sessions/{id}"
  IN  IF unauthenticated(user) THEN Reply(op, user, 401)
      ELSE IF ~findSession(S, id, user) THEN [Reply(op, user, 404) EXCEPT !.sid = id]
      ELSE [Reply(op, user, 200) EXCEPT !.sid = id, !.owners = {S[id].userId}]

\* Session.create of POST /api/sessions
newSession(user, body, time) ==
  [userId |-> user, projectId |-> body.projectId, milestoneId |-> body.milestoneId,
   taskId |-> body.taskId, startTime |-> time, endTime |-> NoTime,
   status |-> "active", isActive |-> TRUE, note |-> "", duration |-> 0]

\* POST /api/sessions
postSessionActiveFirst(P, S, user, body, time) ==
  LET op == "POST /api/sessions"
  IN  IF unauthenticated(user) THEN [S |-> S, r |-> Reply(op, user, 401)]
      ELSE IF findActiveSession(S, user)
      THEN [S |-> S, r |-> [Reply(op, user, 400) EXCEPT !.error = "active"]]
      ELSE IF body.projectId = NoId \/ body.milestoneId = NoSub \/ body.taskId = NoSub
      THEN [S |-> S, r |-> [Reply(op, user, 400) EXCEPT !.error = "required"]]
      ELSE IF ~findProject(P, body.projectId, user)
      THEN [S |-> S, r |-> [Reply(op, user, 404) EXCEPT !.pid = body.projectId]]
      ELSE [S |-> Append(S, newSession(user, body, time)),
            r |-> [Reply(op, user, 200) EXCEPT !.pid = body.projectId,
                                               !.sid = Len(S) + 1, !.owners = {user}]]

postSession(P, S, user, body, time) ==
  LET op == "POST /api/sessions"
  IN  IF unauthenticated(user) THEN [S |-> S, r |-> Reply(op, user, 401)]
      ELSE IF body.projectId = NoId \/ body.milestoneId = NoSub \/ body.taskId = NoSub
      THEN [S |-> S, r |-> [Reply(op, user, 400) EXCEPT !.error = "required"]]
      ELSE IF ~findProject(P, body.projectId, user)
      THEN [S |-> S, r |-> [Reply(op, user, 404) EXCEPT !.pid = body.projectId]]
      ELSE IF findActiveSession(S, user)
      THEN [S |-> S, r |-> [Reply(op, user, 400) EXCEPT !.pid = body.projectId,
                                                        !.error = "active"]]
      ELSE [S |-> Append(S, newSession(user, body, time)),
            r |-> [Reply(op, user, 200) EXCEPT !.pid = body.projectId,
                                               !.sid = Len(S) + 1, !.owners = {user}]]

\* PUT /api/sessions: Session.findOneAndUpdate({ _id: sessionId, userId }, ...)
putSessionReopen(S, user, sessionId, note, time) ==
  LET op == "PUT /api/sessions"
  IN  IF unauthenticated(user) THEN [S |-> S, r |-> Reply(op, user, 401)]
      ELSE IF sessionId = NoId
      THEN [S |-> S, r |-> [Reply(op, user, 400) EXCEPT !.error = "required"]]
      ELSE IF ~findSession(S, sessionId, user)
      THEN [S |-> S, r |-> [Reply(op, user, 404) EXCEPT !.sid = sessionId, !.note = note]]
      ELSE [S |-> [S EXCEPT ![sessionId].status =
                              IF @ = "completed" THEN "active" ELSE "completed",
                            ![sessionId].endTime = time,
                            ![sessionId].note = IF note = Null THEN "" ELSE note],
            r |-> [Reply(op, user, 200) EXCEPT !.sid = sessionId, !.note = note,
                                               !.owners = {S[sessionId].userId}]]

putSession(S, user, sessionId, note, time) ==
  LET op == "PUT /api/sessions"
  IN  IF unauthenticated(user) THEN [S |-> S, r |-> Reply(op, user, 401)]
      ELSE IF sessionId = NoId
      THEN [S |-> S, r |-> [Reply(op, user, 400) EXCEPT !.error = "required"]]
      ELSE IF ~findSession(S, sessionId, user)
      THEN [S |-> S, r |-> [Reply(op, user, 404) EXCEPT !.sid = sessionId, !.note = note]]
      ELSE [S |-> [S EXCEPT ![sessionId].status = "completed",
                            ![sessionId].endTime = time,
                            ![sessionId].note = IF note = Null THEN "" ELSE note],
            r |-> [Reply(op, user, 200) EXCEPT !.sid = sessionId, !.note = note,
                                               !.owners = {S[sessionId].userId}]]

\* PUT /api/sessions/{id}: the session is ended and saved, then the task of
\* its project is updated when the body carries taskStatus or taskNote
putSessionById(P, S, user, id, body, time) ==
  LET op == "PUT /api/sessions/{id}"
      ended == [S[id] EXCEPT !.isActive = FALSE, !.endTime = time,
                             !.duration = time - S[id].startTime,
                             !.note = IF body.note \notin {Null, ""} THEN body.note ELSE @]
      S1 == [S EXCEPT ![id] = ended]
      pid == S[id].projectId
      i == MilestoneIndex(P[pid], S[id].milestoneId)
      j == TaskIndex(P[pid].milestones[i], S[id].taskId)
      doc == sessionTaskUpdate(P[pid], i, j, body.taskStatus, body.taskNote)
      done == [Reply(op, user, 200) EXCEPT !.sid = id, !.note = body.note,
                                           !.status = body.taskStatus,
                                           !.owners = {S[id].userId}]
  IN  IF unauthenticated(user) THEN [P |-> P, S |-> S, r |-> Reply(op, user, 401)]
      ELSE IF ~findSession(S, id, user)
      THEN [P |-> P, S |-> S, r |-> [Reply(op, user, 404) EXCEPT !.sid = id]]
      ELSE IF body.taskStatus = Null /\ body.taskNote \in {Null, ""}
      THEN [P |-> P, S |-> S1, r |-> done]
      ELSE IF ~findProject(P, pid, user) THEN [P |-> P, S |-> S1, r |-> done]
      ELSE IF i = 0 THEN [P |-> P, S |-> S1, r |-> done]
      ELSE IF j = 0 THEN [P |-> P, S |-> S1, r |-> done]
      ELSE IF ~validate(doc)
      THEN [P |-> P, S |-> S1,
            r |-> [Reply(op, user, 500) EXCEPT !.sid = id, !.note = body.note,
                                               !.status = body.taskStatus]]
      ELSE [P |-> [P EXCEPT ![pid] = save(P[pid], P[pid], preSave(P[pid], doc))],
            S |-> S1, r |-> done]

\* ------------------------------------------- /api/user/settings handlers
Themes == {"light", "dark", "system"}

\* GET /api/user/settings
getSettings(U, user) ==
  LET op == "GET /api/user/settings"
  IN  IF unauthenticated(user) THEN Reply(op, user, 401)
      ELSE IF ~U[user].exists THEN Reply(op, user, 404)
      ELSE [Reply(op, user, 200) EXCEPT !.owners = {user}]

\* PUT /api/user/settings
putSettings(U, user, theme) ==
  LET op == "PUT /api/user/settings"
  IN  IF unauthenticated(user) THEN [U |-> U, r |-> Reply(op, user, 401)]
      ELSE IF ~U[user].exists THEN [U |-> U, r |-> Reply(op, user, 404)]
      ELSE IF theme \notin Themes \cup {Null} THEN [U |-> U, r |-> Reply(op, user, 500)]
      ELSE [U |-> IF theme = Null THEN U ELSE [U EXCEPT ![user].theme = theme],
            r |-> [Reply(op, user, 200) EXCEPT !.owners = {user}]]

\* ------------------------------------------------- User (model), sign-up
\* an email is the sequence of its characters; a missing or empty one is << >>
NoEmail == << >>
WordChars == {"a", "b", "x", "i", "o", "A"}

\* String.prototype.toLowerCase, the setter of `lowercase: true`; `trim` has
\* nothing to remove from an email that passed emailRegex
toLowerCase(s) == [k \in 1..Len(s) |-> IF s[k] = "A" THEN "a" ELSE s[k]]

\* /^[^\s@]+@[^\s@]+\.[^\s@]+$/
emailRegexTest(s) ==
  \E i \in 2..Len(s) :
    /\ s[i] = "@"
    /\ \A k \in (1..Len(s)) \ {i} : s[k] \notin {"@", " "}
    /\ \E j \in (i + 2)..(Len(s) - 1) : s[j] = "."

\* \w+([\.-]?\w+)*
WordRuns(t) ==
  /\ t # << >>
  /\ t[1] \in WordChars /\ t[Len(t)] \in WordChars
  /\ \A k \in 1..Len(t) : t[k] \in WordChars \cup {".", "-"}
  /\ \A k \in 1..(Len(t) - 1) : t[k] \in WordChars \/ t[k + 1] \in WordChars

\* the validator of UserSchema.email:
\* /^\w+([\.-]?\w+)*@\w+([\.-]?\w+)*(\.\w{2,3})+$/
emailValidator(s) ==
  \E i \in 1..Len(s) :
    /\ s[i] = "@"
    /\ WordRuns(SubSeq(s, 1, i - 1))
    /\ \E p \in (i + 2)..Len(s) :
         /\ s[p] = "."
         /\ Len(s) - p \in {2, 3}
         /\ \A k \in (p + 1)..Len(s) : s[k] \in WordChars
         /\ WordRuns(SubSeq(s, i + 1, p - 1))

\* the password regex of the register route: 8 or more characters of
\* [A-Za-z\d@$!%*?&] with a lower-case letter, an upper-case letter, a digit
\* and a special character
StrongPassword == "Passw0rd!"
passwordRegexTest(password) == password = StrongPassword

\* the document no user id stands for
NoUserDoc ==
  [exists |-> FALSE, theme |-> "system", email |-> NoEmail, authProvider |-> Null,
   authId |-> Null]

\* User.findOne({ email }): the filter is cast like the path, to lower case
findUserByEmail(U, email) ==
  \E u \in DOMAIN U : U[u].exists /\ U[u].email = toLowerCase(email)

\* the unique indexes of the users collection: email, and (authProvider,
\* authId), where a missing authId is indexed as null
duplicateKeyNever(U, doc) == FALSE

duplicateKey(U, doc) ==
  \E u \in DOMAIN U :
    /\ U[u].exists
    /\ \/ U[u].email = doc.email
       \/ U[u].authProvider = doc.authProvider /\ U[u].authId = doc.authId

\* User.create: setters, validation, then the insert under the unique indexes
createUser(U, email, authProvider, authId) ==
  LET doc == [exists |-> TRUE, theme |-> "system", email |-> toLowerCase(email),
              authProvider |-> authProvider, authId |-> authId]
      free == {u \in DOMAIN U : ~U[u].exists}
  IN  IF ~emailValidator(doc.email) THEN [U |-> U, error |-> "validation"]
      ELSE IF duplicateKey(U, doc) THEN [U |-> U, error |-> "duplicate"]
      ELSE IF free = {} THEN [U |-> U, error |-> "full"]
      ELSE [U |-> [U EXCEPT ![CHOOSE u \in free : TRUE] = doc], error |-> Null]

\* lib/rate-limit: RateLimit.check(limit, token) of the one token the
\* register route uses; `L` is store[token], absent before the first call
Interval == 60 * 1000
Limit == 5
NoEntry == [present |-> FALSE, count |-> 0, resetTime |-> 0]

checkResetAtResetTime(L, limit, time) ==
  LET L1 == IF ~L.present
            THEN [present |-> TRUE, count |-> 0, resetTime |-> time + Interval]
            ELSE L
      L2 == IF time >= L1.resetTime
            THEN [present |-> TRUE, count |-> 0, resetTime |-> time + Interval]
            ELSE L1
      L3 == [L2 EXCEPT !.count = @ + 1]
  IN  [L |-> L3, ok |-> L3.count <= limit]

check(L, limit, time) ==
  LET L1 == IF ~L.present
            THEN [present |-> TRUE, count |-> 0, resetTime |-> time + Interval]
            ELSE L
      L2 == IF time > L1.resetTime
            THEN [present |-> TRUE, count |-> 0, resetTime |-> time + Interval]
            ELSE L1
      L3 == [L2 EXCEPT !.count = @ + 1]
  IN  [L |-> L3, ok |-> L3.count <= limit]

\* the request checks of POST /api/auth/register before the database: the
\* answer they give, 0 when they pass
registerChecks(body) ==
  IF ~body.name \/ body.email = NoEmail \/ body.password = Null THEN 400
  ELSE IF ~emailRegexTest(body.email) THEN 400
  ELSE IF ~passwordRegexTest(body.password) THEN 400
  ELSE 0

\* POST /api/auth/register
register(U, L, body, time) ==
  LET op == "POST /api/auth/register"
      lim == check(L, Limit, time)
      made == createUser(U, body.email, "email", Null)
  IN  IF ~lim.ok THEN [U |-> U, L |-> lim.L, r |-> Reply(op, NoUser, 429)]
      ELSE IF registerChecks(body) # 0
      THEN [U |-> U, L |-> lim.L, r |-> Reply(op, NoUser, registerChecks(body))]
      ELSE IF findUserByEmail(U, body.email)
      THEN [U |-> U, L |-> lim.L, r |-> Reply(op, NoUser, 409)]
      ELSE IF made.error # Null
      THEN [U |-> U, L |-> lim.L, r |-> Reply(op, NoUser, 500)]
      ELSE [U |-> made.U, L |-> lim.L, r |-> Reply(op, NoUser, 201)]

\* ----------------------------------------------------------------- state
VARIABLES
  projects,   \* the projects collection: projects[id], NoProject once deleted
  sessions,   \* the sessions collection: sessions[id]
  users,      \* the users collection, by user id
  pc,         \* SpecConc: where each request in flight stands
  loc,        \* SpecConc: each request's arguments and loaded document
  issued,     \* SpecConc: requests started so far
  reg,        \* SpecReg: where each sign-up or sign-in in flight stands
  limiter,    \* SpecReg: the rate limiter's entry of the register route
  now         \* SpecReg: Date.now()

vars == <<projects, sessions, users, pc, loc, issued, reg, limiter, now>>
concVars == <<pc, loc, issued>>
regVars == <<reg, limiter, now>>

Procs == {1, 2}
NoLoc == [user |-> NoUser, pid |-> NoId, sid |-> NoId, mid |-> NoSub, tid |-> NoSub,
          status |-> Null, doc |-> NoProject]

\* ------------------------------------------------------- request inputs
AnyUser == Users \cup {NoUser}
ProjectIds == 1..MaxProjects
SessionIds == 1..MaxSessions
\* the milestone and task a request addresses: one of every milestones array
\* a project can hold here (a pair of two arrays is answered 404 like <<2, 2>>)
Targets ==
  {[mid |-> NewId(g, 1), tid |-> NewId(g, j)] : g \in 1..(MaxReplace + 1), j \in 1..2}
MilestoneIds == {t.mid : t \in Targets}
StatusInputs == TaskStatuses \cup {Null, Bogus}
ProjectStatusInputs == {"archived", Null, Bogus}
NoteInputs == Notes \cup {Null}
ThemeInputs == {"dark", Null, Bogus}

CreateShapes ==
  { << >>,
    << [tasks |-> <<Null, Null>>] >>,
    << [tasks |-> <<"completed">>] >>,
    << [tasks |-> <<Bogus>>] >> }

CreateBodies ==
  {[name |-> TRUE, status |-> Null, milestones |-> m] : m \in CreateShapes}
  \cup {[name |-> FALSE, status |-> Null, milestones |-> << >>],
        [name |-> TRUE, status |-> Bogus, milestones |-> << >>]}

UpdateBodies ==
  {[status |-> Null, replace |-> TRUE, milestones |-> << >>],
   [status |-> Null, replace |-> TRUE,
    milestones |-> << [status |-> "not_started", tasks |-> <<"completed">>] >>],
   [status |-> Null, replace |-> TRUE,
    milestones |-> << [status |-> Bogus, tasks |-> << >>] >>],
   [status |-> "archived", replace |-> FALSE, milestones |-> << >>],
   [status |-> Bogus, replace |-> FALSE, milestones |-> << >>]}

\* sessions are started on the first task of the first milestone
StartBodies ==
  {[projectId |-> p, milestoneId |-> NewId(1, 1), taskId |-> NewId(1, 1)] :
      p \in ProjectIds}
  \cup {[projectId |-> 1, milestoneId |-> NoSub, taskId |-> NoSub]}

EndBodies ==
  {[note |-> n, taskStatus |-> st, taskNote |-> tn] :
      n \in NoteInputs, st \in {Null, "in_progress", "completed", Bogus},
      tn \in NoteInputs}

\* every handler answers a request without a user before it reads the
\* request: one such request stands for all of them
Args(user, S) == IF user = NoUser THEN {CHOOSE x \in S : TRUE} ELSE S

\* the sign-up and sign-in inputs
EmailA      == <<"a", "@", "x", ".", "i", "o">>
EmailUpperA == <<"A", "@", "x", ".", "i", "o">>
EmailB      == <<"b", "@", "x", ".", "i", "o">>
EmailPlus   == <<"a", "+", "b", "@", "x", ".", "i", "o">>
EmailBad    == <<"a", "x", ".", "i", "o">>
AuthIds     == {"g1", "g2"}

RegisterBodies ==
  {[name |-> TRUE, email |-> e, password |-> StrongPassword] :
      e \in {EmailA, EmailUpperA, EmailB, EmailPlus, EmailBad, NoEmail}}
  \cup {[name |-> TRUE, email |-> EmailA, password |-> "password"],
        [name |-> FALSE, email |-> EmailA, password |-> StrongPassword]}

\* a request of SpecReg between its awaits
NoReg == [pc |-> "idle", email |-> NoEmail, authId |-> Null]

\* the users the requests of Spec and SpecConc are signed in as: u1 signed up
\* with a password, u2 signed in with Google
SignedUp ==
  [u \in Users |->
     IF u = "u1"
     THEN [NoUserDoc EXCEPT !.exists = TRUE, !.email = EmailA, !.authProvider = "email"]
     ELSE [NoUserDoc EXCEPT !.exists = TRUE, !.email = EmailB,
                            !.authProvider = "google", !.authId = "g1"]]

\* ------------------------------------------------------------------ Init
Init ==
  /\ projects = << >>
  /\ sessions = << >>
  /\ users = SignedUp
  /\ pc = [p \in Procs |-> "idle"]
  /\ loc = [p \in Procs |-> NoLoc]
  /\ issued = 0
  /\ reg = [p \in Procs |-> NoReg]
  /\ limiter = NoEntry
  /\ now = Date

\* ------------------------------------- Spec: one request after the other
CreateProject ==
  \E user \in AnyUser : \E body \in Args(user, CreateBodies) :
    LET out == postProject(projects, user, body)
    IN  /\ Len(out.P) <= MaxProjects
        /\ projects' = out.P
        /\ UNCHANGED <<sessions, users, concVars, regVars>>

GetProjects ==
  \E user \in AnyUser :
    /\ getProjects(projects, user).code \in {200, 401}
    /\ UNCHANGED vars

GetProject ==
  \E user \in AnyUser : \E id \in Args(user, ProjectIds) :
    /\ getProject(projects, user, id).code \in {200, 401, 404}
    /\ UNCHANGED vars

DeleteProject ==
  \E user \in AnyUser : \E id \in Args(user, ProjectIds) :
    LET out == deleteProject(projects, user, id)
    IN  /\ projects' = out.P
        /\ UNCHANGED <<sessions, users, concVars, regVars>>

PutProjectStatus ==
  \E user \in AnyUser :
    \E id \in Args(user, ProjectIds), status \in Args(user, ProjectStatusInputs) :
      LET out == putProjectStatus(projects, user, id, status)
      IN  /\ projects' = out.P
          /\ UNCHANGED <<sessions, users, concVars, regVars>>

PutProject ==
  \E user \in AnyUser :
    \E id \in Args(user, ProjectIds), body \in Args(user, UpdateBodies) :
      LET out == putProject(projects, user, id, body)
      IN  /\ \A k \in 1..Len(out.P) : out.P[k].gen <= MaxReplace + 1
          /\ projects' = out.P
          /\ UNCHANGED <<sessions, users, concVars, regVars>>

PutMilestoneStatus ==
  \E user \in AnyUser :
    \E id \in Args(user, ProjectIds), milestoneId \in Args(user, MilestoneIds),
       status \in Args(user, StatusInputs) :
      LET out == putMilestoneStatus(projects, user, id, milestoneId, status)
      IN  /\ projects' = out.P
          /\ UNCHANGED <<sessions, users, concVars, regVars>>

PutTaskStatus ==
  \E user \in AnyUser :
    \E id \in Args(user, ProjectIds), t \in Args(user, Targets),
       status \in Args(user, StatusInputs), note \in Args(user, NoteInputs) :
      LET out == putTaskStatus(projects, user, id, t.mid, t.tid, status, note)
      IN  /\ projects' = out.P
          /\ UNCHANGED <<sessions, users, concVars, regVars>>

GetSessions ==
  \E user \in AnyUser :
    \E projectId \in Args(user, ProjectIds \cup {NoId}), active \in Args(user, BOOLEAN) :
      /\ getSessions(sessions, user, projectId, active).code \in {200, 401}
      /\ UNCHANGED vars

GetSession ==
  \E user \in AnyUser : \E id \in Args(user, SessionIds) :
    /\ getSession(sessions, user, id).code \in {200, 401, 404}
    /\ UNCHANGED vars

StartSession ==
  \E user \in AnyUser : \E body \in Args(user, StartBodies) :
    LET out == postSession(projects, sessions, user, body, Date)
    IN  /\ Len(out.S) <= MaxSessions
        /\ sessions' = out.S
        /\ UNCHANGED <<projects, users, concVars, regVars>>

EndSession ==
  \E user \in AnyUser :
    \E sessionId \in Args(user, SessionIds \cup {NoId}), note \in Args(user, NoteInputs) :
      LET out == putSession(sessions, user, sessionId, note, Date)
      IN  /\ sessions' = out.S
          /\ UNCHANGED <<projects, users, concVars, regVars>>

EndSessionById ==
  \E user \in AnyUser :
    \E id \in Args(user, SessionIds), body \in Args(user, EndBodies) :
      LET out == putSessionById(projects, sessions, user, id, body, Date)
      IN  /\ projects' = out.P
          /\ sessions' = out.S
          /\ UNCHANGED <<users, concVars, regVars>>

GetSettings ==
  \E user \in AnyUser :
    /\ getSettings(users, user).code \in {200, 401, 404}
    /\ UNCHANGED vars

PutSettings ==
  \E user \in AnyUser : \E theme \in Args(user, ThemeInputs) :
    LET out == putSettings(users, user, theme)
    IN  /\ users' = out.U
        /\ UNCHANGED <<projects, sessions, concVars, regVars>>

Next ==
  \/ CreateProject
  \/ GetProjects
  \/ GetProject
  \/ DeleteProject
  \/ PutProjectStatus
  \/ PutProject
  \/ PutMilestoneStatus
  \/ PutTaskStatus
  \/ GetSessions
  \/ GetSession
  \/ StartSession
  \/ EndSession
  \/ EndSessionById

Spec == Init /\ [][Next]_vars

\* the settings handlers alone
NextUsers ==
  \/ GetSettings
  \/ PutSettings

SpecUsers == Init /\ [][NextUsers]_vars

\* ------------------------- SpecConc: two requests, one await at a time
\* The requests of one user on one project, created by POST /api/projects
\* with one milestone of two tasks.  A request that is answered at its first
\* await (401, 400, 404) changes nothing and is not started here.
ConcUser == "u1"
ConcBody == [name |-> TRUE, status |-> Null, milestones |-> << [tasks |-> <<Null, Null>>] >>]
ConcTargets == {t \in Targets : t.mid = NewId(1, 1)}

InitConc ==
  /\ projects = postProject(<< >>, ConcUser, ConcBody).P
  /\ sessions = << >>
  /\ users = SignedUp
  /\ pc = [p \in Procs |-> "idle"]
  /\ loc = [p \in Procs |-> NoLoc]
  /\ issued = 0
  /\ reg = [p \in Procs |-> NoReg]
  /\ limiter = NoEntry
  /\ now = Date

Begin(p, at, l) ==
  /\ pc[p] = "idle"
  /\ issued < MaxRequests
  /\ issued' = issued + 1
  /\ pc' = [pc EXCEPT ![p] = at]
  /\ loc' = [loc EXCEPT ![p] = l]

Finish(p) ==
  /\ pc' = [pc EXCEPT ![p] = "idle"]
  /\ loc' = [loc EXCEPT ![p] = NoLoc]
  /\ UNCHANGED issued

\* POST /api/sessions up to `await Session.findOne(...)`: no active session
PostSessionFind(p) ==
  \E body \in StartBodies :
    /\ postSession(projects, sessions, ConcUser, body, Date).r.code = 200
    /\ Begin(p, "create", [NoLoc EXCEPT !.user = ConcUser, !.pid = body.projectId,
                                        !.mid = body.milestoneId, !.tid = body.taskId])
    /\ UNCHANGED <<projects, sessions, users, regVars>>

\* POST /api/sessions: `await Session.create(...)`
PostSessionCreate(p) ==
  /\ pc[p] = "create"
  /\ sessions' = Append(sessions,
        newSession(loc[p].user,
                   [projectId |-> loc[p].pid, milestoneId |-> loc[p].mid,
                    taskId |-> loc[p].tid], Date))
  /\ Finish(p)
  /\ UNCHANGED <<projects, users, regVars>>

\* PUT task status up to `await Project.findOne(...)`: the project is loaded
PutTaskStatusLoad(p) ==
  \E t \in ConcTargets, status \in TaskStatuses :
    /\ findProject(projects, 1, ConcUser)
    /\ Begin(p, "saveTask", [NoLoc EXCEPT !.user = ConcUser, !.pid = 1, !.mid = t.mid,
                                          !.tid = t.tid, !.status = status,
                                          !.doc = projects[1]])
    /\ UNCHANGED <<projects, sessions, users, regVars>>

\* PUT task status: the loaded document is changed, then `await project.save()`
PutTaskStatusSave(p) ==
  /\ pc[p] = "saveTask"
  /\ LET loaded == loc[p].doc
         i == MilestoneIndex(loaded, loc[p].mid)
         j == TaskIndex(loaded.milestones[i], loc[p].tid)
         doc == taskStatusUpdate(loaded, i, j, loc[p].status, Null)
     IN  projects' = [projects EXCEPT ![loc[p].pid] =
                        save(projects[loc[p].pid], loaded, preSave(loaded, doc))]
  /\ Finish(p)
  /\ UNCHANGED <<sessions, users, regVars>>

\* PUT milestone status up to `await Project.findOne(...)`
PutMilestoneStatusLoad(p) ==
  \E status \in TaskStatuses :
    /\ findProject(projects, 1, ConcUser)
    /\ Begin(p, "saveMilestone", [NoLoc EXCEPT !.user = ConcUser, !.pid = 1,
                                               !.mid = NewId(1, 1), !.status = status,
                                               !.doc = projects[1]])
    /\ UNCHANGED <<projects, sessions, users, regVars>>

\* PUT milestone status: the loaded document is changed and saved
PutMilestoneStatusSave(p) ==
  /\ pc[p] = "saveMilestone"
  /\ LET loaded == loc[p].doc
         i == MilestoneIndex(loaded, loc[p].mid)
         doc == milestoneStatusUpdate(loaded, i, loc[p].status)
     IN  projects' = [projects EXCEPT ![loc[p].pid] =
                        save(projects[loc[p].pid], loaded, preSave(loaded, doc))]
  /\ Finish(p)
  /\ UNCHANGED <<sessions, users, regVars>>

\* PUT /api/sessions/{id} with a taskStatus, up to `await sessionData.save()`:
\* the session is found, ended and saved
EndSessionByIdSave(p) ==
  \E id \in 1..Len(sessions), taskStatus \in {"in_progress", "completed"} :
    /\ findSession(sessions, id, ConcUser)
    /\ sessions' = putSessionById(projects, sessions, ConcUser, id,
                      [note |-> Null, taskStatus |-> Null, taskNote |-> Null], Date).S
    /\ Begin(p, "loadProject", [NoLoc EXCEPT !.user = ConcUser, !.sid = id,
                                             !.status = taskStatus])
    /\ UNCHANGED <<projects, users, regVars>>

\* PUT /api/sessions/{id}: `await Project.findOne(...)`
EndSessionByIdLoad(p) ==
  /\ pc[p] = "loadProject"
  /\ LET s == sessions[loc[p].sid]
     IN  IF findProject(projects, s.projectId, loc[p].user)
         THEN /\ pc' = [pc EXCEPT ![p] = "saveProject"]
              /\ loc' = [loc EXCEPT ![p].pid = s.projectId, ![p].mid = s.milestoneId,
                                    ![p].tid = s.taskId, ![p].doc = projects[s.projectId]]
              /\ UNCHANGED issued
         ELSE Finish(p)
  /\ UNCHANGED <<projects, sessions, users, regVars>>

\* PUT /api/sessions/{id}: the task of the loaded project is changed and the
\* project saved
EndSessionByIdSaveProject(p) ==
  /\ pc[p] = "saveProject"
  /\ LET loaded == loc[p].doc
         i == MilestoneIndex(loaded, loc[p].mid)
         j == IF i = 0 THEN 0 ELSE TaskIndex(loaded.milestones[i], loc[p].tid)
     IN  IF j = 0 THEN UNCHANGED projects
         ELSE projects' = [projects EXCEPT ![loc[p].pid] =
                save(projects[loc[p].pid], loaded,
                     preSave(loaded, sessionTaskUpdate(loaded, i, j, loc[p].status, Null)))]
  /\ Finish(p)
  /\ UNCHANGED <<sessions, users, regVars>>

NextConc ==
  \E p \in Procs :
    \/ PostSessionFind(p)
    \/ PostSessionCreate(p)
    \/ PutTaskStatusLoad(p)
    \/ PutTaskStatusSave(p)
    \/ PutMilestoneStatusLoad(p)
    \/ PutMilestoneStatusSave(p)
    \/ EndSessionByIdSave(p)
    \/ EndSessionByIdLoad(p)
    \/ EndSessionByIdSaveProject(p)

SpecConc == InitConc /\ [][NextConc]_vars

\* -------------------- SpecReg: sign-ups and sign-ins, one await at a time
\* The users collection starts empty.  Two requests are in flight at a time;
\* the clock moves between the instants at which the limiter's window of one
\* request changes.
MaxAttempts == 6
Instants == {0, 1, Interval, Interval + 1, 2 * Interval + 2}

InitReg ==
  /\ projects = << >>
  /\ sessions = << >>
  /\ users = [u \in Users |-> NoUserDoc]
  /\ pc = [p \in Procs |-> "idle"]
  /\ loc = [p \in Procs |-> NoLoc]
  /\ issued = 0
  /\ reg = [p \in Procs |-> NoReg]
  /\ limiter = NoEntry
  /\ now = 0

\* Date.now() moves on
Tick ==
  \E t \in Instants :
    /\ t > now
    /\ now' = t
    /\ UNCHANGED <<projects, sessions, users, concVars, reg, limiter>>

\* POST /api/auth/register up to `await connectToDatabase()`: the limiter and
\* the checks of the body
RegisterCheck(p) ==
  \E body \in RegisterBodies :
    LET lim == check(limiter, Limit, now)
    IN  /\ reg[p].pc = "idle"
        /\ lim.L.count <= MaxAttempts
        /\ limiter' = lim.L
        /\ reg' = IF lim.ok /\ registerChecks(body) = 0
                  THEN [reg EXCEPT ![p] = [NoReg EXCEPT !.pc = "find", !.email = body.email]]
                  ELSE reg
        /\ UNCHANGED <<projects, sessions, users, concVars, now>>

\* POST /api/auth/register: `await User.findOne({ email })`, 409 when found
RegisterFind(p) ==
  /\ reg[p].pc = "find"
  /\ reg' = IF findUserByEmail(users, reg[p].email)
            THEN [reg EXCEPT ![p] = NoReg]
            ELSE [reg EXCEPT ![p].pc = "create"]
  /\ UNCHANGED <<projects, sessions, users, concVars, limiter, now>>

\* POST /api/auth/register: `await User.create(...)`, 201 or 500
RegisterCreate(p) ==
  /\ reg[p].pc = "create"
  /\ LET made == createUser(users, reg[p].email, "email", Null)
     IN  /\ made.error # "full"
         /\ users' = made.U
  /\ reg' = [reg EXCEPT ![p] = NoReg]
  /\ UNCHANGED <<projects, sessions, concVars, limiter, now>>

\* the jwt callback of an OAuth sign-in: `await User.findOne({ email })`; a
\* user that is found only has lastLogin set
SignInFind(p) ==
  \E email \in {EmailA, EmailB}, authId \in AuthIds :
    /\ reg[p].pc = "idle"
    /\ reg' = IF findUserByEmail(users, email)
              THEN reg
              ELSE [reg EXCEPT ![p] = [pc |-> "signInCreate", email |-> email,
                                       authId |-> authId]]
    /\ UNCHANGED <<projects, sessions, users, concVars, limiter, now>>

\* the jwt callback of an OAuth sign-in: `await User.create(...)`
SignInCreate(p) ==
  /\ reg[p].pc = "signInCreate"
  /\ LET made == createUser(users, reg[p].email, "google", reg[p].authId)
     IN  /\ made.error # "full"
         /\ users' = made.U
  /\ reg' = [reg EXCEPT ![p] = NoReg]
  /\ UNCHANGED <<projects, sessions, concVars, limiter, now>>

NextReg ==
  \/ Tick
  \/ \E p \in Procs :
       \/ RegisterCheck(p)
       \/ RegisterFind(p)
       \/ RegisterCreate(p)
       \/ SignInFind(p)
       \/ SignInCreate(p)

SpecReg == InitReg /\ [][NextReg]_vars

\* ------------- SpecMs: status requests on a project of two milestones
\* One user's project with two milestones of two tasks each and a session on
\* its first task; the requests are the milestone-status PUT, the task-status
\* PUT and the session end with a taskStatus.
MsBody ==
  [name |-> TRUE, status |-> Null,
   milestones |-> << [tasks |-> <<Null, Null>>], [tasks |-> <<Null, Null>>] >>]
MsTargets == {[mid |-> NewId(1, i), tid |-> NewId(1, j)] : i \in 1..3, j \in 1..2}
MsEndBodies ==
  {b \in EndBodies : b.note = Null /\ b.taskNote = Null /\ b.taskStatus # Null}

InitMs ==
  /\ projects = postProject(<< >>, ConcUser, MsBody).P
  /\ sessions = postSession(postProject(<< >>, ConcUser, MsBody).P, << >>, ConcUser,
                            [projectId |-> 1, milestoneId |-> NewId(1, 1),
                             taskId |-> NewId(1, 1)], Date).S
  /\ users = SignedUp
  /\ pc = [p \in Procs |-> "idle"]
  /\ loc = [p \in Procs |-> NoLoc]
  /\ issued = 0
  /\ reg = [p \in Procs |-> NoReg]
  /\ limiter = NoEntry
  /\ now = Date

MsPutMilestoneStatus ==
  \E t \in MsTargets, status \in StatusInputs :
    /\ projects' = putMilestoneStatus(projects, ConcUser, 1, t.mid, status).P
    /\ UNCHANGED <<sessions, users, concVars, regVars>>

MsPutTaskStatus ==
  \E t \in MsTargets, status \in StatusInputs :
    /\ projects' = putTaskStatus(projects, ConcUser, 1, t.mid, t.tid, status, Null).P
    /\ UNCHANGED <<sessions, users, concVars, regVars>>

MsEndSessionById ==
  \E body \in MsEndBodies :
    LET out == putSessionById(projects, sessions, ConcUser, 1, body, Date)
    IN  /\ projects' = out.P
        /\ sessions' = out.S
        /\ UNCHANGED <<users, concVars, regVars>>

NextMs ==
  \/ MsPutMilestoneStatus
  \/ MsPutTaskStatus
  \/ MsEndSessionById

SpecMs == InitMs /\ [][NextMs]_vars

\* ------------- SpecPg: task completions on a project of up to MaxTasks tasks
\* Progress depends on the numbers of tasks and of completed tasks only: the
\* project has one milestone, and its tasks are completed and reopened from
\* the front.
MaxTasks == 201

PgBody(n) ==
  [name |-> TRUE, status |-> Null,
   milestones |-> << [tasks |-> [j \in 1..n |-> Null]] >>]

PgTasks == projects[1].milestones[1].tasks

InitPg ==
  /\ \E n \in 0..MaxTasks : projects = postProject(<< >>, ConcUser, PgBody(n)).P
  /\ sessions = << >>
  /\ users = SignedUp
  /\ pc = [p \in Procs |-> "idle"]
  /\ loc = [p \in Procs |-> NoLoc]
  /\ issued = 0
  /\ reg = [p \in Procs |-> NoReg]
  /\ limiter = NoEntry
  /\ now = Date

\* PUT task status 'completed' on the first task that is not completed
PgCompleteTask ==
  \E j \in 1..Len(PgTasks) :
    /\ PgTasks[j].status # "completed"
    /\ \A i \in 1..(j - 1) : PgTasks[i].status = "completed"
    /\ projects' = putTaskStatus(projects, ConcUser, 1, NewId(1, 1), NewId(1, j),
                                 "completed", Null).P
    /\ UNCHANGED <<sessions, users, concVars, regVars>>

\* PUT task status 'not_started' on the last task that is completed
PgReopenTask ==
  \E j \in 1..Len(PgTasks) :
    /\ PgTasks[j].status = "completed"
    /\ \A i \in (j + 1)..Len(PgTasks) : PgTasks[i].status # "completed"
    /\ projects' = putTaskStatus(projects, ConcUser, 1, NewId(1, 1), NewId(1, j),
                                 "not_started", Null).P
    /\ UNCHANGED <<sessions, users, concVars, regVars>>

NextPg ==
  \/ PgCompleteTask
  \/ PgReopenTask

SpecPg == InitPg /\ [][NextPg]_vars

\* ================================================================ claims
ActiveSessions(S, u) ==
  {k \in 1..Len(S) : S[k].userId = u /\ S[k].status = "active"}

Owns(P, u, id) == id \in 1..Len(P) /\ P[id].exists /\ P[id].userId = u

CompleteBody(body) ==
  body.projectId # NoId /\ body.milestoneId # NoSub /\ body.taskId # NoSub

C2_SingleActiveSessionConcurrent ==
  \A u \in Users : ~(\E k, l \in ActiveSessions(sessions, u) : k # l)

\* the value the spec gives for progress: the integer nearest to
\* 100 * completed / total (halves up), 0 without tasks
IsProgressOf(p, ms) ==
  LET total == SumLen(ms)
      completed == SumCompleted(ms)
  IN  IF total = 0 THEN p = 0
      ELSE /\ 2 * total * p <= 200 * completed + total
           /\ 200 * completed + total < 2 * total * (p + 1)

C4_ProgressAfterInterleaving ==
  (\A p \in Procs : pc[p] = "idle") =>
     \A id \in 1..Len(projects) :
       projects[id].exists => IsProgressOf(projects[id].progress, projects[id].milestones)

\* C5: in every reachable state a milestone with at least one task has status
\* 'completed' if and only if all of its tasks have status 'completed'.
C5_MilestoneStatusDerived ==
  \A id \in 1..Len(projects) :
    \A i \in 1..Len(projects[id].milestones) :
      LET m == projects[id].milestones[i]
      IN  Len(m.tasks) > 0 =>
            (m.status = "completed" <=>
               \A j \in 1..Len(m.tasks) : m.tasks[j].status = "completed")

\* C6: in every reachable state, when a user's active session is ended with a
\* 200 answer through PUT /api/sessions/{id} or PUT /api/sessions, the user's
\* next POST /api/sessions with a complete body for a project of the user is
\* answered 200.
C6_EndThenStart ==
  \A u \in Users : \A id \in ActiveSessions(sessions, u) : \A start \in StartBodies :
    /\ \A body \in EndBodies :
         LET e == putSessionById(projects, sessions, u, id, body, Date)
         IN  (e.r.code = 200 /\ CompleteBody(start) /\ Owns(e.P, u, start.projectId))
               => postSession(e.P, e.S, u, start, Date).r.code = 200
    /\ \A note \in NoteInputs :
         LET e == putSession(sessions, u, id, note, Date)
         IN  (e.r.code = 200 /\ CompleteBody(start) /\ Owns(projects, u, start.projectId))
               => postSession(projects, e.S, u, start, Date).r.code = 200

\* the lastSession note of the task a session is on, Null when the project,
\* milestone or task is gone
LastNoteOf(P, s) ==
  IF ~(s.projectId \in 1..Len(P) /\ P[s.projectId].exists) THEN Null
  ELSE LET i == MilestoneIndex(P[s.projectId], s.milestoneId)
       IN  IF i = 0 THEN Null
           ELSE LET j == TaskIndex(P[s.projectId].milestones[i], s.taskId)
                IN  IF j = 0 THEN Null
                    ELSE P[s.projectId].milestones[i].tasks[j].lastNote

TaskOfSessionExists(P, s) ==
  /\ s.projectId \in 1..Len(P) /\ P[s.projectId].exists
  /\ MilestoneIndex(P[s.projectId], s.milestoneId) # 0
  /\ TaskIndex(P[s.projectId].milestones[MilestoneIndex(P[s.projectId], s.milestoneId)],
               s.taskId) # 0

\* C7: in every reachable state, when a session on an existing task is ended
\* with a non-empty note and a 200 answer, through either end endpoint, the
\* task's lastSession.note afterwards is that note.
C7_LastSessionNote ==
  \A u \in Users : \A id \in 1..Len(sessions) : \A n \in Notes :
    TaskOfSessionExists(projects, sessions[id]) =>
      /\ \A body \in {b \in EndBodies : b.note = n} :
           LET e == putSessionById(projects, sessions, u, id, body, Date)
           IN  e.r.code = 200 => LastNoteOf(e.P, sessions[id]) = n
      /\ LET e == putSession(sessions, u, id, n, Date)
         IN  e.r.code = 200 => LastNoteOf(projects, sessions[id]) = n

\* the projects and sessions of the users other than A are in P2 and S2 what
\* they are in the stored collections, and what P2 and S2 add is A's
KeepsOthers(A, P2, S2) ==
  /\ Len(P2) >= Len(projects) /\ Len(S2) >= Len(sessions)
  /\ \A k \in 1..Len(projects) : projects[k].userId # A => P2[k] = projects[k]
  /\ \A k \in 1..Len(sessions) : sessions[k].userId # A => S2[k] = sessions[k]
  /\ \A k \in (Len(projects) + 1)..Len(P2) : P2[k].userId = A
  /\ \A k \in (Len(sessions) + 1)..Len(S2) :
       S2[k].userId = A /\ Owns(projects, A, S2[k].projectId)

ForeignProject(A, id) ==
  id \in 1..Len(projects) /\ projects[id].exists /\ projects[id].userId # A

ForeignSession(A, id) == id \in 1..Len(sessions) /\ sessions[id].userId # A

\* C8: in every reachable state and for every request of a signed-in user A:
\* the answer carries no project or session of another user, the projects and
\* sessions of the other users are stored afterwards as before, and a request
\* that names a project or a session of another user is answered 404 (a status
\* PUT with an invalid status and a start without its ids are answered 400
\* before the lookup).
C8_OwnershipIsolation ==
  \A A \in Users :
    /\ getProjects(projects, A).owners \subseteq {A}
    /\ \A body \in CreateBodies :
         LET o == postProject(projects, A, body)
         IN  KeepsOthers(A, o.P, sessions) /\ o.r.owners \subseteq {A}
    /\ \A id \in ProjectIds :
         /\ LET r == getProject(projects, A, id)
            IN  r.owners \subseteq {A} /\ (ForeignProject(A, id) => r.code = 404)
         /\ LET o == deleteProject(projects, A, id)
            IN  /\ KeepsOthers(A, o.P, sessions) /\ o.r.owners \subseteq {A}
                /\ ForeignProject(A, id) => o.r.code = 404
         /\ \A status \in ProjectStatusInputs :
              LET o == putProjectStatus(projects, A, id, status)
              IN  /\ KeepsOthers(A, o.P, sessions) /\ o.r.owners \subseteq {A}
                  /\ ForeignProject(A, id) =>
                       o.r.code = IF status \in ProjectStatuses THEN 404 ELSE 400
         /\ \A body \in UpdateBodies :
              LET o == putProject(projects, A, id, body)
              IN  /\ KeepsOthers(A, o.P, sessions) /\ o.r.owners \subseteq {A}
                  /\ ForeignProject(A, id) => o.r.code = 404
         /\ \A t \in Targets : \A status \in StatusInputs :
              /\ LET o == putMilestoneStatus(projects, A, id, t.mid, status)
                 IN  /\ KeepsOthers(A, o.P, sessions) /\ o.r.owners \subseteq {A}
                     /\ ForeignProject(A, id) =>
                          o.r.code = IF status \in TaskStatuses THEN 404 ELSE 400
              /\ \A note \in NoteInputs :
                   LET o == putTaskStatus(projects, A, id, t.mid, t.tid, status, note)
                   IN  /\ KeepsOthers(A, o.P, sessions) /\ o.r.owners \subseteq {A}
                       /\ ForeignProject(A, id) =>
                            o.r.code = IF status \in TaskStatuses THEN 404 ELSE 400
    /\ \A projectId \in ProjectIds \cup {NoId} : \A active \in BOOLEAN :
         getSessions(sessions, A, projectId, active).owners \subseteq {A}
    /\ \A body \in StartBodies :
         LET o == postSession(projects, sessions, A, body, Date)
         IN  /\ KeepsOthers(A, projects, o.S) /\ o.r.owners \subseteq {A}
             /\ (CompleteBody(body) /\ ForeignProject(A, body.projectId)) =>
                  (o.r.code = 404 /\ o.S = sessions)
    /\ \A id \in SessionIds :
         /\ LET r == getSession(sessions, A, id)
            IN  r.owners \subseteq {A} /\ (ForeignSession(A, id) => r.code = 404)
         /\ \A note \in NoteInputs :
              LET o == putSession(sessions, A, id, note, Date)
              IN  /\ KeepsOthers(A, projects, o.S) /\ o.r.owners \subseteq {A}
                  /\ ForeignSession(A, id) => o.r.code = 404
         /\ \A body \in EndBodies :
              LET o == putSessionById(projects, sessions, A, id, body, Date)
              IN  /\ KeepsOthers(A, o.P, o.S) /\ o.r.owners \subseteq {A}
                  /\ ForeignSession(A, id) => o.r.code = 404

\* one user holds a project with a changed task and an active session on it,
\* and the other user's requests for them are answered 404
C8_Witness ==
  \E A, B \in Users :
    /\ A # B
    /\ \E id \in ProjectIds, sid \in SessionIds :
         /\ Owns(projects, B, id) /\ SumCompleted(projects[id].milestones) > 0
         /\ sid \in ActiveSessions(sessions, B)
         /\ putProjectStatus(projects, A, id, "archived").r.code = 404
         /\ putSession(sessions, A, sid, Null, Date).r.code = 404

\* C9: in every reachable state every project, milestone-status, task-status,
\* session and user-settings handler answers a request without a signed-in
\* user id with 401, and the projects, sessions and users it would store are
\* the stored ones.
C9_AuthenticationGate ==
  /\ \A body \in CreateBodies :
       LET o == postProject(projects, NoUser, body)
       IN  o.r.code = 401 /\ o.P = projects
  /\ getProjects(projects, NoUser).code = 401
  /\ \A id \in ProjectIds :
       /\ getProject(projects, NoUser, id).code = 401
       /\ LET o == deleteProject(projects, NoUser, id)
          IN  o.r.code = 401 /\ o.P = projects
       /\ \A status \in ProjectStatusInputs :
            LET o == putProjectStatus(projects, NoUser, id, status)
            IN  o.r.code = 401 /\ o.P = projects
       /\ \A body \in UpdateBodies :
            LET o == putProject(projects, NoUser, id, body)
            IN  o.r.code = 401 /\ o.P = projects
       /\ \A t \in Targets : \A status \in StatusInputs :
            /\ LET o == putMilestoneStatus(projects, NoUser, id, t.mid, status)
               IN  o.r.code = 401 /\ o.P = projects
            /\ \A note \in NoteInputs :
                 LET o == putTaskStatus(projects, NoUser, id, t.mid, t.tid, status, note)
                 IN  o.r.code = 401 /\ o.P = projects
  /\ \A projectId \in ProjectIds \cup {NoId} : \A active \in BOOLEAN :
       getSessions(sessions, NoUser, projectId, active).code = 401
  /\ \A body \in StartBodies :
       LET o == postSession(projects, sessions, NoUser, body, Date)
       IN  o.r.code = 401 /\ o.S = sessions
  /\ \A id \in SessionIds \cup {NoId} :
       /\ getSession(sessions, NoUser, id).code = 401
       /\ \A note \in NoteInputs :
            LET o == putSession(sessions, NoUser, id, note, Date)
            IN  o.r.code = 401 /\ o.S = sessions
       /\ \A body \in EndBodies :
            LET o == putSessionById(projects, sessions, NoUser, id, body, Date)
            IN  o.r.code = 401 /\ o.P = projects /\ o.S = sessions
  /\ getSettings(users, NoUser).code = 401
  /\ \A theme \in ThemeInputs :
       LET o == putSettings(users, NoUser, theme)
       IN  o.r.code = 401 /\ o.U = users

\* a project with a task and an active session on it are stored, and the
\* requests without a user that name them are answered 401
C9_Witness ==
  \E id \in ProjectIds, sid \in SessionIds :
    /\ id \in 1..Len(projects) /\ projects[id].exists
    /\ SumLen(projects[id].milestones) > 0
    /\ sid \in 1..Len(sessions) /\ sessions[sid].status = "active"
    /\ deleteProject(projects, NoUser, id).r.code = 401
    /\ putSession(sessions, NoUser, sid, Null, Date).r.code = 401

\* C10: in every reachable state every stored task and milestone status is one
\* of not_started, in_progress, completed and every stored project status one
\* of active, completed, archived; and a milestone-status, task-status or
\* project-status PUT of a signed-in user whose body.status is missing or not
\* in the domain is answered 400 and stores the projects as they are.
C10_StatusDomains ==
  /\ \A id \in 1..Len(projects) :
       /\ projects[id].status \in ProjectStatuses
       /\ \A i \in 1..Len(projects[id].milestones) :
            /\ projects[id].milestones[i].status \in TaskStatuses
            /\ \A j \in 1..Len(projects[id].milestones[i].tasks) :
                 projects[id].milestones[i].tasks[j].status \in TaskStatuses
  /\ \A user \in Users : \A id \in ProjectIds : \A status \in {Null, Bogus} :
       /\ LET o == putProjectStatus(projects, user, id, status)
          IN  o.r.code = 400 /\ o.P = projects
       /\ \A t \in Targets :
            /\ LET o == putMilestoneStatus(projects, user, id, t.mid, status)
               IN  o.r.code = 400 /\ o.P = projects
            /\ \A note \in NoteInputs :
                 LET o == putTaskStatus(projects, user, id, t.mid, t.tid, status, note)
                 IN  o.r.code = 400 /\ o.P = projects

\* a project whose task and whose own status have been changed, and whose
\* owner's PUT of a status outside the domain on that task is answered 400
C10_Witness ==
  \E id \in ProjectIds :
    /\ id \in 1..Len(projects) /\ projects[id].exists
    /\ projects[id].status = "archived"
    /\ Len(projects[id].milestones) > 0
    /\ Len(projects[id].milestones[1].tasks) > 0
    /\ projects[id].milestones[1].tasks[1].status = "in_progress"
    /\ LET m == projects[id].milestones[1]
           o == putTaskStatus(projects, projects[id].userId, id, m.id, m.tasks[1].id,
                              Bogus, Null)
       IN  o.r.code = 400 /\ o.P = projects

\* the email belongs to a stored user (emails are stored in lower case)
EmailTaken(email) ==
  \E u \in Users :
    users[u].exists /\ users[u].email = [k \in 1..Len(email) |->
                                           IF email[k] = "A" THEN "a" ELSE email[k]]

\* the limiter's window is open and holds Limit calls already
Exhausted ==
  limiter.present /\ now <= limiter.resetTime /\ limiter.count >= Limit

RuleStatus(ts, old) ==
  CASE \A k \in 1..Len(ts) : ts[k].status = "completed" -> "completed"
    [] \E k \in 1..Len(ts) : ts[k].status = "in_progress" -> "in_progress"
    [] \A k \in 1..Len(ts) : ts[k].status = "not_started" -> "not_started"
    [] OTHER -> old

\* C12: in every reachable state, a task-status PUT that is answered 200
\* stores the task with the requested status, and its milestone with status
\* 'completed' if all its tasks are completed, else 'in_progress' if one is in
\* progress, else 'not_started' if all are not started, else with the status
\* the milestone had before.
C12_TaskStatusRule ==
  \A user \in Users : \A id \in ProjectIds : \A t \in Targets :
    \A status \in StatusInputs : \A note \in NoteInputs :
      LET o == putTaskStatus(projects, user, id, t.mid, t.tid, status, note)
      IN  o.r.code = 200 =>
            LET i == MilestoneIndex(projects[id], t.mid)
                j == TaskIndex(projects[id].milestones[i], t.tid)
                m == o.P[id].milestones[i]
            IN  /\ m.tasks[j].status = status
                /\ m.status = RuleStatus(m.tasks, projects[id].milestones[i].status)

\* a milestone 'in_progress' whose tasks are one completed and one not
\* started, and a task-status PUT on it that is answered 200 and leaves the
\* milestone 'in_progress'
C12_Witness ==
  \E id \in ProjectIds :
    /\ id \in 1..Len(projects) /\ projects[id].exists
    /\ Len(projects[id].milestones) = 1
    /\ LET m == projects[id].milestones[1]
       IN  /\ Len(m.tasks) = 2
           /\ m.tasks[1].status = "completed" /\ m.tasks[2].status = "not_started"
           /\ m.status = "in_progress"
           /\ LET o == putTaskStatus(projects, projects[id].userId, id, m.id,
                                     m.tasks[2].id, "not_started", Null)
              IN  o.r.code = 200 /\ o.P[id].milestones[1].status = "in_progress"

\* the status of the task a session is on
TaskStatusOf(P, s) ==
  LET i == MilestoneIndex(P[s.projectId], s.milestoneId)
      j == TaskIndex(P[s.projectId].milestones[i], s.taskId)
  IN  P[s.projectId].milestones[i].tasks[j].status

\* C13: in every reachable state, when PUT /api/sessions/{id} with a taskStatus
\* is answered 200 for a session on an existing task, the stored task has that
\* status, the stored progress is round(100 * completed / total), and the
\* stored status of the task's milestone is the one derived from its tasks.
C13_SessionEndRecomputes ==
  \A user \in Users : \A id \in 1..Len(sessions) :
    \A body \in {b \in EndBodies : b.taskStatus \in TaskStatuses} :
      LET o == putSessionById(projects, sessions, user, id, body, Date)
          s == sessions[id]
      IN  (o.r.code = 200 /\ TaskOfSessionExists(projects, s)) =>
            LET i == MilestoneIndex(projects[s.projectId], s.milestoneId)
                m == o.P[s.projectId].milestones[i]
            IN  /\ TaskStatusOf(o.P, s) = body.taskStatus
                /\ IsProgressOf(o.P[s.projectId].progress, o.P[s.projectId].milestones)
                /\ m.status = RuleStatus(m.tasks, projects[s.projectId].milestones[i].status)

\* C14: in every reachable state, when POST /api/sessions is answered 200 for a
\* task whose status is not_started, the task's status afterwards is not
\* not_started (the handler stores no project: the projects afterwards are the
\* stored ones).
C14_SessionStartUpdatesStatus ==
  \A user \in Users : \A body \in StartBodies :
    LET o == postSession(projects, sessions, user, body, Date)
    IN  (o.r.code = 200 /\ TaskOfSessionExists(projects, body)) =>
           TaskStatusOf(projects, body) # "not_started"

\* C15: in every reachable state, a milestone-status PUT with status
\* 'completed' that is answered 200 stores the milestone as completed with
\* every one of its tasks completed, and the progress in its answer is
\* round(100 * completed / total) of the project as stored by the request.
C15_CompleteMilestone ==
  \A user \in Users : \A t \in MsTargets :
    LET o == putMilestoneStatus(projects, user, 1, t.mid, "completed")
    IN  o.r.code = 200 =>
          LET m == o.P[1].milestones[MilestoneIndex(projects[1], t.mid)]
          IN  /\ m.status = "completed"
              /\ \A k \in 1..Len(m.tasks) : m.tasks[k].status = "completed"
              /\ IsProgressOf(o.r.progress, o.P[1].milestones)
              /\ o.r.progress = o.P[1].progress

\* a project with progress 25 and a milestone not completed with a task not
\* started, whose completion is answered 200 with progress 75
C15_Witness ==
  /\ projects[1].progress = 25
  /\ \E t \in MsTargets :
       LET i == MilestoneIndex(projects[1], t.mid)
           o == putMilestoneStatus(projects, ConcUser, 1, t.mid, "completed")
       IN  /\ i # 0
           /\ projects[1].milestones[i].status = "in_progress"
           /\ \E k \in 1..2 : projects[1].milestones[i].tasks[k].status = "not_started"
           /\ o.r.code = 200 /\ o.r.progress = 75

C17_MilestoneStatusFrame ==
  \A user \in Users : \A t \in MsTargets : \A status \in StatusInputs :
    LET o == putMilestoneStatus(projects, user, 1, t.mid, status)
        i == MilestoneIndex(projects[1], t.mid)
        P1 == projects[1]
        P2 == o.P[1]
    IN  /\ Len(o.P) = Len(projects)
        /\ o.r.code # 200 => o.P = projects
        /\ o.r.code = 200 =>
             /\ P2.status = P1.status /\ P2.userId = P1.userId /\ P2.exists
             /\ Len(P2.milestones) = Len(P1.milestones)
             /\ \A m \in 1..Len(P1.milestones) :
                  m # i => P2.milestones[m] = P1.milestones[m]
             /\ P2.milestones[i].id = P1.milestones[i].id
             /\ P2.milestones[i].status = status
             /\ Len(P2.milestones[i].tasks) = Len(P1.milestones[i].tasks)
             /\ \A k \in 1..Len(P1.milestones[i].tasks) :
                  LET a == P1.milestones[i].tasks[k]
                      b == P2.milestones[i].tasks[k]
                  IN  /\ b.id = a.id /\ b.lastNote = a.lastNote
                      /\ b.status # a.status =>
                           \/ status = "completed" /\ b.status = "completed"
                           \/ /\ status = "in_progress"
                              /\ a.status = "not_started" /\ b.status = "in_progress"

\* the other milestone is in progress with a task in progress, the addressed
\* one is completed with its tasks, and a PUT 'not_started' on it is answered
\* 200 and stores its tasks completed as they were
C17_Witness ==
  \E t \in MsTargets :
    LET i == MilestoneIndex(projects[1], t.mid)
        o == putMilestoneStatus(projects, ConcUser, 1, t.mid, "not_started")
    IN  /\ i # 0
        /\ projects[1].milestones[3 - i].status = "in_progress"
        /\ projects[1].milestones[3 - i].tasks[1].status = "in_progress"
        /\ projects[1].milestones[i].status = "completed"
        /\ \A k \in 1..2 : projects[1].milestones[i].tasks[k].status = "completed"
        /\ o.r.code = 200
        /\ o.P[1].milestones[i].status = "not_started"
        /\ o.P[1].milestones[i].tasks = projects[1].milestones[i].tasks

\* the bodies of a session start: each id present or missing, the project id
\* that of a stored or of no project
StartInputs ==
  {[projectId |-> p, milestoneId |-> m, taskId |-> t] :
      p \in {NoId} \cup (1..(MaxProjects + 1)),
      m \in {NoSub, NewId(1, 1)}, t \in {NoSub, NewId(1, 1)}}

C19_AtomicSessionEnd ==
  \A user \in Users : \A id \in SessionIds : \A body \in EndBodies :
    LET o == putSessionById(projects, sessions, user, id, body, Date)
    IN  o.r.code # 200 => o.S = sessions /\ o.P = projects

\* C20: every step keeps every stored session (none is deleted, and its user,
\* project, milestone, task and start time stay), leaves a session whose
\* status is 'completed' at 'completed', and stores a new session only with
\* status 'active' and no endTime.
C20_OneWayLifecycle ==
  [][/\ Len(sessions') >= Len(sessions)
     /\ \A k \in 1..Len(sessions) :
          /\ sessions'[k].userId = sessions[k].userId
          /\ sessions'[k].projectId = sessions[k].projectId
          /\ sessions'[k].milestoneId = sessions[k].milestoneId
          /\ sessions'[k].taskId = sessions[k].taskId
          /\ sessions'[k].startTime = sessions[k].startTime
          /\ sessions[k].status = "completed" => sessions'[k].status = "completed"
     /\ \A k \in (Len(sessions) + 1)..Len(sessions') :
          sessions'[k].status = "active" /\ sessions'[k].endTime = NoTime]_vars

\* a session was completed, ended once more through PUT /api/sessions/{id},
\* its project deleted, and its user has started the next session
C20_Witness ==
  \E k \in 1..Len(sessions) : \E n \in 1..Len(sessions) :
    /\ sessions[k].status = "completed" /\ ~sessions[k].isActive
    /\ ~projects[sessions[k].projectId].exists
    /\ sessions[n].userId = sessions[k].userId /\ sessions[n].status = "active"

\* C21: in every reachable state a stored session carries an endTime if and
\* only if its status is 'completed'; no session has status 'active' and an
\* endTime.
C21_EndTimeIffCompleted ==
  \A k \in 1..Len(sessions) :
    (sessions[k].endTime # NoTime) <=> (sessions[k].status = "completed")

\* a session that has been ended by either route
Ended(s) == s.status = "completed" \/ ~s.isActive

\* C22: in every reachable state, an end request (PUT /api/sessions or
\* PUT /api/sessions/{id}, at a later instant) for a session that has been
\* ended leaves its endTime, duration and note as they are.
C22_CompletedImmutable ==
  \A user \in Users : \A k \in 1..Len(sessions) :
    Ended(sessions[k]) =>
      /\ \A note \in NoteInputs :
           LET o == putSession(sessions, user, k, note, Date + 1)
           IN  /\ o.S[k].endTime = sessions[k].endTime
               /\ o.S[k].duration = sessions[k].duration
               /\ o.S[k].note = sessions[k].note
      /\ \A body \in EndBodies :
           LET o == putSessionById(projects, sessions, user, k, body, Date + 1)
           IN  /\ o.S[k].endTime = sessions[k].endTime
               /\ o.S[k].duration = sessions[k].duration
               /\ o.S[k].note = sessions[k].note

\* C23: in every reachable state every stored session references a project
\* that exists and belongs to the session's user, and a milestone of that
\* project and a task of that milestone.
C23_ReferentialIntegrity ==
  \A k \in 1..Len(sessions) :
    /\ Owns(projects, sessions[k].userId, sessions[k].projectId)
    /\ TaskOfSessionExists(projects, sessions[k])

\* C24: in every reachable state the stored progress of a project is an
\* integer in 0..100, and it is 100 if and only if the project has at least
\* one task and every task is completed.
C24_HundredMeansDone ==
  \A id \in 1..Len(projects) :
    projects[id].exists =>
      /\ projects[id].progress \in 0..100
      /\ projects[id].progress = 100 <=>
           /\ SumLen(projects[id].milestones) >= 1
           /\ SumCompleted(projects[id].milestones) = SumLen(projects[id].milestones)

\* the answers (TRUE: resolves, FALSE: throws) of n calls of check, one after
\* the other at the instant t, the first one on the entry L
RECURSIVE Answers(_, _, _)
Answers(L, t, n) ==
  IF n = 0 THEN << >>
  ELSE <<check(L, Limit, t).ok>> \o Answers(check(L, Limit, t).L, t, n - 1)

\* C25: in every state reachable by sign-ups, for a call of check at the
\* current or a later instant t: within the entry's window (t <= resetTime)
\* the call keeps resetTime, counts one more and resolves if and only if
\* fewer than `limit` calls were counted in the window before it; otherwise
\* (no entry, or t > resetTime) it opens a window that ends at t + interval,
\* with count 1, and resolves, and of the calls that follow in that window
\* exactly the next limit - 1 resolve; and a registration resolves its check
\* unless it is answered 429, and then no user is created.
C25_FixedWindow ==
  \A t \in Instants :
    t >= now =>
      LET c == check(limiter, Limit, t)
          inWindow == limiter.present /\ t <= limiter.resetTime
      IN  /\ inWindow =>
                /\ c.L.resetTime = limiter.resetTime
                /\ c.L.count = limiter.count + 1
                /\ c.ok <=> limiter.count < Limit
          /\ ~inWindow =>
                /\ c.L.resetTime = t + Interval
                /\ c.L.count = 1
                /\ c.ok
                /\ \A t2 \in {t, c.L.resetTime} :
                     Answers(c.L, t2, Limit + 1) =
                       [k \in 1..(Limit + 1) |-> k <= Limit - 1]
          /\ \A body \in RegisterBodies :
               LET out == register(users, limiter, body, t)
               IN  /\ out.L = c.L
                   /\ out.r.code = 429 <=> ~c.ok
                   /\ out.r.code = 429 => out.U = users

\* the second window of the limiter holds Limit calls, a user is stored, time
\* has reached the window's resetTime and a well-formed registration with a
\* new email is answered 429
C25_Witness ==
  /\ Exhausted /\ limiter.resetTime > Interval /\ now = limiter.resetTime
  /\ \E u \in Users : users[u].exists
  /\ \E body \in RegisterBodies :
       /\ registerChecks(body) = 0 /\ ~EmailTaken(body.email)
       /\ register(users, limiter, body, now).r.code = 429

====
